---- MODULE Spec2Model ----
(***************************************************************************)
(* pipewire_python.link: the pw-link wrapper.  Ports, the command          *)
(* generator (Port._join_arguments / connect / disconnect), the listing    *)
(* parser (_split_id_from_data), the stereo pairing scan of                *)
(* list_inputs / list_outputs, the link listing parser (list_links /       *)
(* list_link_groups), and the operations of StereoInput, StereoOutput,     *)
(* Link and StereoLink on a PipeWire graph.                                *)
(*                                                                         *)
(* Text is a sequence of one-character strings, so that split, strip,      *)
(* join, upper and int() are computed character by character.              *)
(***************************************************************************)
EXTENDS Integers, Sequences, FiniteSets, TLC

VARIABLES
    listing,    \* the lines pw-link prints for a port listing (--input / --output)
    stdout,     \* the characters it prints for them: what the program reads
    call,       \* the last operation called, with its arguments
    result,     \* what that operation returned (a list; <<>> also stands for None)
    raised,     \* the exception it raised, "none" when it returned
    executed,   \* the argument vectors it handed to _execute_shell_command, in order
    first,      \* the first listing call made, its outcome, and whether a
                \* connect or disconnect command was executed since (history)
    graph,      \* the PipeWire graph pw-link acts on: its output ports, its
                \* input ports, its links, and what pw-link wrote to stderr
                \* for the commands of the last call
    _pipewire_configs   \* Controller._pipewire_configs: option |-> value

vars == <<listing, stdout, call, result, raised, executed, first, graph,
          _pipewire_configs>>

(***************************************************************************)
(* Bounds of the model.                                                    *)
(***************************************************************************)
MaxLines == 3

(***************************************************************************)
(* class PortType(Enum)                                                    *)
(***************************************************************************)
INPUT == 1
OUTPUT == 2

PW_LINK_COMMAND == <<"p", "w", "-", "l", "i", "n", "k">>

(***************************************************************************)
(* Controller._pipewire_configs as the class defines it, for the options   *)
(* set_config verifies: every value None.                                  *)
(***************************************************************************)
class_pipewire_configs ==
    [option \in {"--rate", "--channels", "--format", "--quality"} |-> [cls |-> "None"]]

(***************************************************************************)
(* Python's str and int operations, as the interpreter computes them.      *)
(***************************************************************************)
Whitespace == {" ", "\t", "\n", "\r"}

Digits == {"0", "1", "2", "3", "4", "5", "6", "7", "8", "9"}

DigitVal(c) ==
    CASE c = "0" -> 0 [] c = "1" -> 1 [] c = "2" -> 2 [] c = "3" -> 3
      [] c = "4" -> 4 [] c = "5" -> 5 [] c = "6" -> 6 [] c = "7" -> 7
      [] c = "8" -> 8 [] c = "9" -> 9

\* index of the first occurrence of character c in s, 0 when there is none
str_find(s, c) ==
    IF \E i \in 1..Len(s) : s[i] = c
    THEN CHOOSE i \in 1..Len(s) : s[i] = c /\ \A j \in 1..(i - 1) : s[j] # c
    ELSE 0

\* s.split(c)
RECURSIVE str_split(_, _)
str_split(s, c) ==
    LET k == str_find(s, c) IN
    IF k = 0 THEN <<s>>
    ELSE <<SubSeq(s, 1, k - 1)>> \o str_split(SubSeq(s, k + 1, Len(s)), c)

\* s.split(c, maxsplit=1)
str_split_once(s, c) ==
    LET k == str_find(s, c) IN
    IF k = 0 THEN <<s>>
    ELSE <<SubSeq(s, 1, k - 1), SubSeq(s, k + 1, Len(s))>>

\* s.lstrip(): leading whitespace removed
RECURSIVE str_lstrip(_)
str_lstrip(s) ==
    IF Len(s) > 0 /\ s[1] \in Whitespace THEN str_lstrip(Tail(s)) ELSE s

\* s.strip(chars): leading and trailing characters of the set removed
RECURSIVE str_strip(_, _)
str_strip(s, chars) ==
    IF Len(s) > 0 /\ s[1] \in chars THEN str_strip(Tail(s), chars)
    ELSE IF Len(s) > 0 /\ s[Len(s)] \in chars
         THEN str_strip(SubSeq(s, 1, Len(s) - 1), chars)
         ELSE s

UpperOf(c) ==
    CASE c = "a" -> "A" [] c = "b" -> "B" [] c = "f" -> "F" [] c = "l" -> "L"
      [] c = "m" -> "M" [] c = "r" -> "R" [] c = "x" -> "X" [] c = "h" -> "H"
      [] c = "d" -> "D" [] OTHER -> c

\* s.upper()
str_upper(s) == [i \in 1..Len(s) |-> UpperOf(s[i])]

\* sub in s
str_contains(sub, s) ==
    \E i \in 1..(Len(s) - Len(sub) + 1) : SubSeq(s, i, i + Len(sub) - 1) = sub

\* sep.join(parts)
RECURSIVE str_join(_, _)
str_join(sep, parts) ==
    IF Len(parts) = 0 THEN <<>>
    ELSE IF Len(parts) = 1 THEN parts[1]
    ELSE parts[1] \o sep \o str_join(sep, Tail(parts))

RECURSIVE DecimalValue(_, _)
DecimalValue(s, acc) ==
    IF Len(s) = 0 THEN acc ELSE DecimalValue(Tail(s), 10 * acc + DigitVal(s[1]))

\* int(s): surrounding whitespace and one sign allowed, then decimal digits;
\* anything else is a ValueError
py_int(s) ==
    LET t == str_strip(s, Whitespace)
        signed == Len(t) > 0 /\ t[1] \in {"+", "-"}
        body == IF signed THEN Tail(t) ELSE t
    IN  IF Len(body) > 0 /\ \A i \in 1..Len(body) : body[i] \in Digits
        THEN [exc |-> "none",
              val |-> IF signed /\ t[1] = "-" THEN 0 - DecimalValue(body, 0)
                      ELSE DecimalValue(body, 0)]
        ELSE [exc |-> "ValueError", val |-> 0]

(***************************************************************************)
(* @dataclass class Port, and its subclasses Input and Output              *)
(***************************************************************************)
Port(cls, device, name, id, port_type) ==
    [cls |-> cls, device |-> device, name |-> name, id |-> id,
     port_type |-> port_type]

\* template.format(*args) for a template whose replacement fields are all "{}":
\* a field with no argument left is an IndexError
RECURSIVE str_format(_, _)
str_format(template, args) ==
    LET k == str_find(template, "{") IN
    IF k = 0 THEN [exc |-> "none", val |-> template]
    ELSE IF Len(args) = 0 THEN [exc |-> "IndexError", val |-> <<>>]
    ELSE LET rest == str_format(SubSeq(template, k + 2, Len(template)), Tail(args))
         IN  IF rest.exc # "none" THEN rest
             ELSE [exc |-> "none",
                   val |-> SubSeq(template, 1, k - 1) \o args[1] \o rest.val]

\* raise InvalidLink(message.format(what)): the message is formatted first
raise_InvalidLink(message, what) ==
    LET text == str_format(message, <<what>>) IN
    IF text.exc # "none" THEN [exc |-> text.exc, args |-> <<>>]
    ELSE [exc |-> "InvalidLink", args |-> <<>>]

_join_arguments_self_first(self, other, message) ==
    IF self.port_type = other.port_type
    THEN raise_InvalidLink(message, <<"p", "o", "r", "t">>)
    ELSE [exc |-> "none",
          args |-> <<PW_LINK_COMMAND,
                     str_join(<<":">>, <<self.device, self.name>>),
                     str_join(<<":">>, <<other.device, other.name>>)>>]

_join_arguments_input_appends_self_first(self, other, message) ==
    IF self.port_type = INPUT
    THEN IF other.port_type = INPUT
         THEN raise_InvalidLink(message, <<"i", "n", "p", "u", "t">>)
         ELSE [exc |-> "none",
               args |-> <<PW_LINK_COMMAND,
                          str_join(<<":">>, <<self.device, self.name>>),
                          str_join(<<":">>, <<other.device, other.name>>)>>]
    ELSE IF other.port_type = OUTPUT
         THEN raise_InvalidLink(message, <<"o", "u", "t", "p", "u", "t">>)
         ELSE [exc |-> "none",
               args |-> <<PW_LINK_COMMAND,
                          str_join(<<":">>, <<self.device, self.name>>),
                          str_join(<<":">>, <<other.device, other.name>>)>>]

\* Port._join_arguments: the argument list, output first, or the exception
_join_arguments(self, other, message) ==
    IF self.port_type = INPUT
    THEN IF other.port_type = INPUT
         THEN raise_InvalidLink(message, <<"i", "n", "p", "u", "t">>)
         ELSE [exc |-> "none",
               args |-> <<PW_LINK_COMMAND,
                          str_join(<<":">>, <<other.device, other.name>>),
                          str_join(<<":">>, <<self.device, self.name>>)>>]
    ELSE IF other.port_type = OUTPUT
         THEN raise_InvalidLink(message, <<"o", "u", "t", "p", "u", "t">>)
         ELSE [exc |-> "none",
               args |-> <<PW_LINK_COMMAND,
                          str_join(<<":">>, <<self.device, self.name>>),
                          str_join(<<":">>, <<other.device, other.name>>)>>]

\* "Cannot connect an {} to another {}."
CONNECT_MESSAGE ==
    <<"C", "a", "n", "n", "o", "t", " ", "c", "o", "n", "n", "e", "c", "t",
      " ", "a", "n", " ", "{", "}", " ", "t", "o", " ", "a", "n", "o", "t",
      "h", "e", "r", " ", "{", "}", ".">>

\* "Cannot disconnect an {} from another {}."
DISCONNECT_MESSAGE ==
    <<"C", "a", "n", "n", "o", "t", " ", "d", "i", "s", "c", "o", "n", "n",
      "e", "c", "t", " ", "a", "n", " ", "{", "}", " ", "f", "r", "o", "m",
      " ", "a", "n", "o", "t", "h", "e", "r", " ", "{", "}", ".">>

DISCONNECT_FLAG == <<"-", "-", "d", "i", "s", "c", "o", "n", "n", "e", "c", "t">>

\* the ports a caller of connect / disconnect may hold: every device, name and
\* direction of a small set
LinkPorts ==
    { Port(IF t = INPUT THEN "Input" ELSE "Output", d, n, 0, t) :
        d \in {<<"a">>, <<"b">>}, n \in {<<"F", "L">>, <<"F", "R">>},
        t \in {INPUT, OUTPUT} }

\* one sink and one source
PortPool ==
    { Port("Input", <<"a">>, <<"F", "L">>, 83, INPUT),
      Port("Output", <<"b">>, <<"F", "R">>, 10, OUTPUT) }

(***************************************************************************)
(* pw-link, the external tool: "pw-link output input" links two ports of   *)
(* the graph and "pw-link output input --disconnect" unlinks them; a link  *)
(* command that cannot be carried out writes to stderr and changes         *)
(* nothing.  A link is [output |-> port id, input |-> port id].            *)
(***************************************************************************)
NoPorts == [outputs |-> <<>>, inputs |-> <<>>, links |-> {}, stderr |-> ""]

\* the ports of a port list that the token "<device>:<name>" names
port_named(ports, token) ==
    { k \in 1..Len(ports) : ports[k].device \o <<":">> \o ports[k].name = token }

quiet(g) == [g EXCEPT !.stderr = ""]

pw_link(g, argv) ==
    LET out == port_named(g.outputs, argv[2])
        in == port_named(g.inputs, argv[3])
        link == [output |-> g.outputs[CHOOSE k \in out : TRUE].num,
                 input |-> g.inputs[CHOOSE k \in in : TRUE].num]
    IN  IF out = {} \/ in = {}
        THEN [g EXCEPT !.stderr = "No such port"]
        ELSE IF Len(argv) > 3
        THEN IF link \in g.links
             THEN [g EXCEPT !.links = @ \ {link}]
             ELSE [g EXCEPT !.stderr = "No such link"]
        ELSE IF link \in g.links
             THEN [g EXCEPT !.stderr = "File exists"]
             ELSE [g EXCEPT !.links = @ \cup {link}]

\* the link commands of one call, run in order
RECURSIVE pw_link_all(_, _)
pw_link_all(g, commands) ==
    IF commands = <<>> THEN g
    ELSE pw_link_all(pw_link(g, Head(commands)), Tail(commands))

connect_unless_linked(self, other) ==
    LET joined == _join_arguments(self, other, CONNECT_MESSAGE)
        linked == \E l \in graph.links : {l.output, l.input} = {self.id, other.id}
    IN
    /\ call' = [op |-> "connect", self |-> self, other |-> other]
    /\ raised' = joined.exc
    /\ executed' = IF joined.exc = "none" /\ ~linked THEN <<joined.args>> ELSE <<>>
    /\ result' = <<>>
    /\ first' = first
    /\ graph' = pw_link_all(quiet(graph), executed')
    /\ UNCHANGED <<listing, stdout, _pipewire_configs>>

\* Port.connect(self, other)
connect(self, other) ==
    LET joined == _join_arguments(self, other, CONNECT_MESSAGE) IN
    /\ call' = [op |-> "connect", self |-> self, other |-> other]
    /\ raised' = joined.exc
    /\ executed' = IF joined.exc = "none" THEN <<joined.args>> ELSE <<>>
    /\ result' = <<>>
    /\ first' = IF first.op = "none" \/ joined.exc # "none" THEN first
                 ELSE [first EXCEPT !.linked = TRUE]
    /\ graph' = pw_link_all(quiet(graph), executed')
    /\ UNCHANGED <<listing, stdout, _pipewire_configs>>

disconnect_retrying(self, other) ==
    LET joined == _join_arguments(self, other, DISCONNECT_MESSAGE)
        command == Append(joined.args, DISCONNECT_FLAG)
    IN
    /\ call' = [op |-> "disconnect", self |-> self, other |-> other]
    /\ raised' = joined.exc
    /\ executed' = IF joined.exc # "none" THEN <<>>
                   ELSE IF pw_link(quiet(graph), command).stderr # ""
                   THEN <<command, command>>
                   ELSE <<command>>
    /\ result' = <<>>
    /\ first' = first
    /\ graph' = pw_link_all(quiet(graph), executed')
    /\ UNCHANGED <<listing, stdout, _pipewire_configs>>

\* Port.disconnect(self, other)
disconnect(self, other) ==
    LET joined == _join_arguments(self, other, DISCONNECT_MESSAGE) IN
    /\ call' = [op |-> "disconnect", self |-> self, other |-> other]
    /\ raised' = joined.exc
    /\ executed' = IF joined.exc = "none"
                   THEN <<Append(joined.args, DISCONNECT_FLAG)>>
                   ELSE <<>>
    /\ result' = <<>>
    /\ first' = IF first.op = "none" \/ joined.exc # "none" THEN first
                 ELSE [first EXCEPT !.linked = TRUE]
    /\ graph' = pw_link_all(quiet(graph), executed')
    /\ UNCHANGED <<listing, stdout, _pipewire_configs>>

(***************************************************************************)
(* The listing parser                                                      *)
(***************************************************************************)
INPUT_COMMAND == <<"-", "-", "i", "n", "p", "u", "t">>
OUTPUT_COMMAND == <<"-", "-", "o", "u", "t", "p", "u", "t">>
ID_FLAG == <<"-", "-", "i", "d">>

\* the argument vector _split_id_from_data executes
listing_argv(command) == <<PW_LINK_COMMAND, command, ID_FLAG>>

\* data_response.lstrip().split(" ", maxsplit=1)
line_fields(data_response) == str_split_once(str_lstrip(data_response), " ")

_split_id_from_data_any_length(out) ==
    LET lines == str_split(out, "\n")
        kept == SelectSeq(lines, LAMBDA l : Len(line_fields(l)) >= 1)
    IN  [i \in 1..Len(kept) |->
            [j \in 1..Len(line_fields(kept[i])) |->
                str_strip(line_fields(kept[i])[j], {" "})]]

\* _split_id_from_data, applied to the bytes one invocation of pw-link printed
_split_id_from_data(out) ==
    LET lines == str_split(out, "\n")
        kept == SelectSeq(lines, LAMBDA l : Len(line_fields(l)) = 2)
    IN  [i \in 1..Len(kept) |->
            [j \in 1..2 |-> str_strip(line_fields(kept[i])[j], {" "})]]

\* channel_data.rsplit(":", maxsplit=1)
split_device_name_at_last_colon(channel_data) ==
    IF str_find(channel_data, ":") = 0 THEN <<channel_data>>
    ELSE LET k == CHOOSE i \in 1..Len(channel_data) :
                    /\ channel_data[i] = ":"
                    /\ \A j \in (i + 1)..Len(channel_data) : channel_data[j] # ":"
         IN  <<SubSeq(channel_data, 1, k - 1),
               SubSeq(channel_data, k + 1, Len(channel_data))>>

\* channel_data.split(":", maxsplit=1)
split_device_name(channel_data) == str_split_once(channel_data, ":")

\* the for loop of list_inputs / list_outputs: one Input (Output) per data set;
\* unpacking fewer than two parts, or int() of a non-number, raises ValueError
RECURSIVE build_ports(_, _, _, _)
build_ports(data_sets, ports, cls, port_type) ==
    IF Len(data_sets) = 0 THEN [exc |-> "none", val |-> ports]
    ELSE IF Len(data_sets[1]) # 2 THEN [exc |-> "ValueError", val |-> <<>>]
    ELSE LET channel_id == data_sets[1][1]
             channel_data == data_sets[1][2]
             parts == split_device_name(channel_data)
             id == py_int(channel_id)
         IN  IF Len(parts) # 2 THEN [exc |-> "ValueError", val |-> <<>>]
             ELSE IF id.exc # "none" THEN [exc |-> "ValueError", val |-> <<>>]
             ELSE build_ports(Tail(data_sets),
                              Append(ports, Port(cls, parts[1], parts[2],
                                                 id.val, port_type)),
                              cls, port_type)

(***************************************************************************)
(* The stereo pairing scan                                                 *)
(***************************************************************************)
FL == <<"F", "L">>
FR == <<"F", "R">>

\* @dataclass class StereoInput / StereoOutput
Stereo(cls, left, right) == [cls |-> cls, left |-> left, right |-> right]

\* an absent channel (None)
None == [cls |-> "None"]

pair_step_left_is_current(ports, i, stereo_cls) ==
    IF i + 1 <= Len(ports) /\ ports[i + 1].device = ports[i].device
       /\ (str_contains(FL, str_upper(ports[i + 1].name))
           \/ str_contains(FR, str_upper(ports[i + 1].name)))
    THEN [entry |-> Stereo(stereo_cls, ports[i], ports[i + 1]), i |-> i + 1]
    ELSE [entry |-> ports[i], i |-> i]

pair_step_mono_as_group(ports, i, stereo_cls) ==
    IF i + 1 <= Len(ports) /\ ports[i + 1].device = ports[i].device
       /\ str_contains(FL, str_upper(ports[i + 1].name))
    THEN [entry |-> Stereo(stereo_cls, ports[i + 1], ports[i]), i |-> i + 1]
    ELSE IF i + 1 <= Len(ports) /\ ports[i + 1].device = ports[i].device
            /\ str_contains(FR, str_upper(ports[i + 1].name))
    THEN [entry |-> Stereo(stereo_cls, ports[i], ports[i + 1]), i |-> i + 1]
    ELSE [entry |-> Stereo(stereo_cls, ports[i], None), i |-> i]

\* one pass of the while loop's body, entered with i already incremented: here
\* ports[i] is Python's ports[i - 1] (the port at the cursor) and ports[i + 1]
\* is Python's ports[i] (the next port).  Gives the entry appended and i after.
pair_step(ports, i, stereo_cls) ==
    IF i + 1 <= Len(ports) /\ ports[i + 1].device = ports[i].device
       /\ str_contains(FL, str_upper(ports[i + 1].name))
    THEN [entry |-> Stereo(stereo_cls, ports[i + 1], ports[i]), i |-> i + 1]
    ELSE IF i + 1 <= Len(ports) /\ ports[i + 1].device = ports[i].device
            /\ str_contains(FR, str_upper(ports[i + 1].name))
    THEN [entry |-> Stereo(stereo_cls, ports[i], ports[i + 1]), i |-> i + 1]
    ELSE [entry |-> ports[i], i |-> i]

RECURSIVE pair_ports_overlapping(_, _, _, _)
pair_ports_overlapping(ports, i, acc, stereo_cls) ==
    IF ~(i < Len(ports)) THEN acc
    ELSE LET step == pair_step(ports, i + 1, stereo_cls)
         IN  pair_ports_overlapping(ports, i + 1, Append(acc, step.entry), stereo_cls)

\* while i < num_ports: i += 1; ...
RECURSIVE pair_ports(_, _, _, _)
pair_ports(ports, i, acc, stereo_cls) ==
    IF ~(i < Len(ports)) THEN acc
    ELSE LET step == pair_step(ports, i + 1, stereo_cls)
         IN  pair_ports(ports, step.i, Append(acc, step.entry), stereo_cls)

\* ports = []
stale_ports_list ==
    IF call.op \in {"list_inputs", "list_outputs"} /\ raised = "none"
    THEN SelectSeq(result, LAMBDA e : e.cls \in {"Input", "Output"})
    ELSE <<>>

new_ports_list == <<>>

list_inputs_counting_first(first_out, second_out, pair_stereo) ==
    LET inputs == _split_id_from_data(first_out)
        again == _split_id_from_data(second_out)
        counted == SubSeq(again, 1, IF Len(inputs) < Len(again)
                                    THEN Len(inputs) ELSE Len(again))
    IN
    IF Len(inputs) = 0 THEN [exc |-> "none", val |-> <<>>]
    ELSE LET built == build_ports(counted, <<>>, "Input", INPUT)
         IN  IF built.exc # "none" THEN built
             ELSE IF ~pair_stereo THEN built
             ELSE [exc |-> "none",
                   val |-> pair_ports(built.val, 0, <<>>, "StereoInput")]

\* list_inputs(pair_stereo); first_out and second_out are what the first and
\* the second invocation of pw-link --input --id printed
list_inputs(first_out, second_out, pair_stereo) ==
    LET inputs == _split_id_from_data(first_out) IN
    IF Len(inputs) = 0 THEN [exc |-> "none", val |-> new_ports_list]
    ELSE LET built == build_ports(_split_id_from_data(second_out),
                                  new_ports_list, "Input", INPUT)
         IN  IF built.exc # "none" THEN built
             ELSE IF ~pair_stereo THEN built
             ELSE [exc |-> "none",
                   val |-> pair_ports(built.val, 0, <<>>, "StereoInput")]

\* list_outputs(pair_stereo); out is what pw-link --output --id printed
list_outputs(out, pair_stereo) ==
    LET built == build_ports(_split_id_from_data(out),
                             new_ports_list, "Output", OUTPUT)
    IN  IF built.exc # "none" THEN built
        ELSE IF ~pair_stereo THEN built
        ELSE [exc |-> "none",
              val |-> pair_ports(built.val, 0, <<>>, "StereoOutput")]

remember(op, pair_stereo, outcome) ==
    IF first.op = "none"
    THEN [op |-> op, pair_stereo |-> pair_stereo,
          result |-> outcome.val, raised |-> outcome.exc, linked |-> FALSE]
    ELSE first

ListInputs(pair_stereo) ==
    LET outcome == list_inputs(stdout, stdout, pair_stereo) IN
    /\ call' = [op |-> "list_inputs", pair_stereo |-> pair_stereo]
    /\ raised' = outcome.exc
    /\ result' = outcome.val
    /\ executed' = IF Len(_split_id_from_data(stdout)) = 0
                   THEN <<listing_argv(INPUT_COMMAND)>>
                   ELSE <<listing_argv(INPUT_COMMAND), listing_argv(INPUT_COMMAND)>>
    /\ first' = remember("list_inputs", pair_stereo, outcome)
    /\ graph' = quiet(graph)
    /\ UNCHANGED <<listing, stdout, _pipewire_configs>>

ListOutputs(pair_stereo) ==
    LET outcome == list_outputs(stdout, pair_stereo) IN
    /\ call' = [op |-> "list_outputs", pair_stereo |-> pair_stereo]
    /\ raised' = outcome.exc
    /\ result' = outcome.val
    /\ executed' = <<listing_argv(OUTPUT_COMMAND)>>
    /\ first' = remember("list_outputs", pair_stereo, outcome)
    /\ graph' = quiet(graph)
    /\ UNCHANGED <<listing, stdout, _pipewire_configs>>

(***************************************************************************)
(* The listings pw-link may print: up to MaxLines lines, each ended by a   *)
(* newline.  A line of shape "port" is "<id> <device>:<name>", with num    *)
(* the number its id writes and channel the stereo channel its upper-cased *)
(* name mentions; "one_field" is a line of one word; "no_colon" is         *)
(* "<id> <word>"; "bad_id" is "<word> <device>:<name>"; "relation" is a    *)
(* line of a link listing, "<link id>   <glyph> <peer id> <device>:<name>".*)
(***************************************************************************)
Line(shape, lead, id, num, device, name, channel) ==
    [shape |-> shape, lead |-> lead, id |-> id, num |-> num,
     device |-> device, name |-> name, channel |-> channel]

LinePool ==
    { Line("port", <<>>, <<"8", "3">>, 83, <<"a">>, <<"x", "F", "L">>, "FL"),
      Line("port", <<>>, <<"8", "4">>, 84, <<"a">>, <<"x", "F", "R">>, "FR"),
      Line("port", <<>>, <<"8", "5">>, 85, <<"a">>, <<"f", "l">>, "FL"),
      Line("port", <<" ">>, <<"7">>, 7, <<"b">>, <<"m", ":", "x">>, "none"),
      Line("one_field", <<>>, <<>>, 0, <<>>, <<"h", "d", "r">>, "none"),
      Line("no_colon", <<>>, <<"7">>, 7, <<>>, <<"h", "d", "r">>, "none"),
      Line("bad_id", <<>>, <<"x">>, 0, <<"a">>, <<"x", "F", "R">>, "FR") }

LineText(line) ==
    IF line.shape = "one_field" THEN line.name
    ELSE IF line.shape = "no_colon"
         THEN line.lead \o line.id \o <<" ">> \o line.name
    ELSE IF line.shape = "relation"
         THEN line.lead \o line.id \o <<" ", " ", " ">> \o line.glyph \o <<" ">>
              \o line.peer \o <<" ">> \o line.device \o <<":">> \o line.name
         ELSE line.lead \o line.id \o <<" ">> \o line.device \o <<":">> \o line.name

RECURSIVE Printed(_)
Printed(lines) ==
    IF Len(lines) = 0 THEN <<>>
    ELSE LineText(lines[1]) \o <<"\n">> \o Printed(Tail(lines))

Listings == UNION { [1..k -> LinePool] : k \in 0..MaxLines }

Init ==
    /\ listing \in Listings
    /\ stdout = Printed(listing)
    /\ call = [op |-> "none"]
    /\ result = <<>>
    /\ raised = "none"
    /\ executed = <<>>
    /\ first = [op |-> "none"]
    /\ graph = NoPorts
    /\ _pipewire_configs = class_pipewire_configs

Next ==
    \/ \E self \in PortPool, other \in PortPool : connect(self, other)
    \/ \E self \in PortPool, other \in PortPool : disconnect(self, other)
    \/ \E pair_stereo \in BOOLEAN : ListInputs(pair_stereo)
    \/ \E pair_stereo \in BOOLEAN : ListOutputs(pair_stereo)

Spec == Init /\ [][Next]_vars

(***************************************************************************)
(* The command generator alone, over every pair of LinkPorts.              *)
(***************************************************************************)
LinkInit ==
    /\ listing = <<>>
    /\ stdout = Printed(listing)
    /\ call = [op |-> "none"]
    /\ result = <<>>
    /\ raised = "none"
    /\ executed = <<>>
    /\ first = [op |-> "none"]
    /\ graph = NoPorts
    /\ _pipewire_configs = class_pipewire_configs

LinkNext ==
    \/ \E self \in LinkPorts, other \in LinkPorts : connect(self, other)
    \/ \E self \in LinkPorts, other \in LinkPorts : disconnect(self, other)

LinkSpec == LinkInit /\ [][LinkNext]_vars

(***************************************************************************)
(* Properties of the command generator (checked under LinkSpec)            *)
(***************************************************************************)
LinkCalls == {"connect", "disconnect"}

\* "<device>:<name>" of a port
Endpoint(port) == port.device \o <<":">> \o port.name

OutputOf(a, b) == IF a.port_type = OUTPUT THEN a ELSE b

InputOf(a, b) == IF a.port_type = INPUT THEN a ELSE b

\* C1: connect and disconnect raise InvalidLink exactly when the two ports have
\* the same direction, whichever is self and whichever is other.
C1_SameDirectionRaisesInvalidLink ==
    call.op \in LinkCalls =>
        (raised = "InvalidLink" <=> call.self.port_type = call.other.port_type)

\* C2: for ports of opposite direction connect executes exactly
\* ["pw-link", "<output device>:<output name>", "<input device>:<input name>"]
\* and disconnect executes that vector followed by "--disconnect".
C2_OutputThenInput ==
    (call.op \in LinkCalls /\ call.self.port_type # call.other.port_type) =>
        /\ raised = "none"
        /\ executed =
             << << <<"p", "w", "-", "l", "i", "n", "k">>,
                   Endpoint(OutputOf(call.self, call.other)),
                   Endpoint(InputOf(call.self, call.other)) >>
                \o (IF call.op = "disconnect"
                    THEN << <<"-", "-", "d", "i", "s", "c", "o", "n", "n", "e", "c", "t">> >>
                    ELSE <<>>) >>

\* an input port connected to an output port: the output's token comes first
C2_Witness ==
    /\ call.op = "connect"
    /\ call.self.port_type = INPUT
    /\ call.other.port_type = OUTPUT
    /\ Len(executed) = 1
    /\ Len(executed[1]) = 3
    /\ executed[1][2] = Endpoint(call.other)
    /\ executed[1][2] # executed[1][3]

\* C3: a call with receiver and argument exchanged executes the identical
\* command, and b.disconnect(a) after a.connect(b) names the same two endpoints
\* in the same order, followed by "--disconnect".
C3_EitherOrder ==
    [][ ( /\ call.op \in LinkCalls
          /\ call'.op \in LinkCalls
          /\ call.self.port_type # call.other.port_type
          /\ call'.self = call.other
          /\ call'.other = call.self )
        => /\ raised = "none" /\ raised' = "none"
           /\ call'.op = call.op => executed' = executed
           /\ (call.op = "connect" /\ call'.op = "disconnect")
                => executed' = << Append(executed[1], DISCONNECT_FLAG) >> ]_vars

\* sink.disconnect(source) has executed the command for (source, sink)
C3_Witness ==
    /\ call.op = "disconnect"
    /\ call.self.port_type = INPUT
    /\ call.other.port_type = OUTPUT
    /\ raised = "none"
    /\ executed[1][2] = Endpoint(call.other)
    /\ executed[1][3] = Endpoint(call.self)
    /\ executed[1][4] = DISCONNECT_FLAG

(***************************************************************************)
(* Properties of the listing parser and of the pairing scan (checked       *)
(* under Spec).  What is expected is read off the lines printed, not off   *)
(* their characters.                                                       *)
(***************************************************************************)
ListCalls == {"list_inputs", "list_outputs"}

ClassOf(op) == IF op = "list_inputs" THEN "Input" ELSE "Output"

GroupClassOf(op) == IF op = "list_inputs" THEN "StereoInput" ELSE "StereoOutput"

DirectionOf(op) == IF op = "list_inputs" THEN INPUT ELSE OUTPUT

AllLines(shapes) == \A i \in 1..Len(listing) : listing[i].shape \in shapes

\* the well-formed lines printed, in order
PortLines == SelectSeq(listing, LAMBDA l : l.shape = "port")

\* the ports they describe, as op lists them
ListedPorts(op) ==
    [i \in 1..Len(PortLines) |->
        [cls |-> ClassOf(op), device |-> PortLines[i].device,
         name |-> PortLines[i].name, id |-> PortLines[i].num,
         port_type |-> DirectionOf(op)]]

\* C4: when every line is "<id> <device>:<name>", the unpaired listing is one
\* Port per line, in order, with the line's id, the text before the first colon
\* as device, all the text after it as name, and the direction listed.
C4_OnePortPerLine ==
    (call.op \in ListCalls /\ ~call.pair_stereo /\ AllLines({"port"})) =>
        /\ raised = "none"
        /\ result = ListedPorts(call.op)

\* three well-formed lines, one of them with a colon inside its name
C4_Witness ==
    /\ call.op = "list_outputs"
    /\ ~call.pair_stereo
    /\ AllLines({"port"})
    /\ Len(listing) = 3
    /\ Len(result) = 3
    /\ \E i \in 1..3 : result[i].name = <<"m", ":", "x">> /\ result[i].id = 7
    /\ \E i \in 1..3 : result[i].name = <<"x", "F", "L">> /\ result[i].id = 83

\* C5: a line that is not a port record, such as "<id> <word>" with no colon,
\* is skipped: the call does not fail and returns the well-formed lines' ports.
C5_MalformedLineSkipped ==
    (call.op \in ListCalls /\ AllLines({"port", "one_field", "no_colon"})) =>
        /\ raised = "none"
        /\ ~call.pair_stereo => result = ListedPorts(call.op)

\* C6: with no two-field line printed (nothing at all, or one-word lines only)
\* the listing is empty and nothing is raised, paired or not.
C6_NoPortsListsNothing ==
    (call.op \in ListCalls /\ AllLines({"one_field"})) =>
        /\ raised = "none"
        /\ result = <<>>

\* one-word lines only, pairing asked for
C6_Witness ==
    /\ call.op = "list_inputs"
    /\ call.pair_stereo
    /\ Len(listing) >= 2
    /\ AllLines({"one_field"})
    /\ raised = "none"
    /\ result = <<>>
    /\ Len(executed) = 1

\* C7: a well-shaped line whose id is not a number does not make the listing
\* fail; the other lines' ports are still listed.
C7_NonNumericIdTolerated ==
    (call.op \in ListCalls /\ AllLines({"port", "one_field", "bad_id"})) =>
        /\ raised = "none"
        /\ ~call.pair_stereo =>
             \A i \in 1..Len(PortLines) :
                \E j \in 1..Len(result) : result[j] = ListedPorts(call.op)[i]

IsGroup(entry) == entry.cls \in {"StereoInput", "StereoOutput"}

\* where the cursor stands when the k-th entry is emitted: after a stereo
\* group it has advanced by 2, after a standalone port by 1
RECURSIVE Cursor(_)
Cursor(k) ==
    IF k = 1 THEN 1
    ELSE Cursor(k - 1) + (IF IsGroup(result[k - 1]) THEN 2 ELSE 1)

Paired == call.op \in ListCalls /\ call.pair_stereo /\ raised = "none"

NextIsSameDevice(c) ==
    c + 1 <= Len(PortLines) /\ PortLines[c + 1].device = PortLines[c].device

\* C8: when the next port has the cursor port's device and its upper-cased name
\* mentions FL, the entry is the group {left: next, right: current}; when it
\* mentions FR instead, the group {left: current, right: next}; the cursor then
\* advances by 2.  So FL then FR on one device is one group, left the first.
C8_AdjacentSameDevicePaired ==
    Paired =>
        /\ \A k \in 1..Len(result) :
              LET c == Cursor(k)
                  ports == ListedPorts(call.op)
              IN  /\ c <= Len(ports)
                  /\ (NextIsSameDevice(c) /\ PortLines[c + 1].channel = "FL") =>
                        result[k] = [cls |-> GroupClassOf(call.op),
                                     left |-> ports[c + 1], right |-> ports[c]]
                  /\ (NextIsSameDevice(c) /\ PortLines[c + 1].channel = "FR") =>
                        result[k] = [cls |-> GroupClassOf(call.op),
                                     left |-> ports[c], right |-> ports[c + 1]]
        /\ Cursor(Len(result) + 1) = Len(PortLines) + 1

\* FL, FR and a third port: one group with left 83 and right 84, then the third
C8_Witness ==
    /\ Paired
    /\ Len(PortLines) = 3
    /\ Len(result) = 2
    /\ IsGroup(result[1])
    /\ result[1].left.id = 83 /\ result[1].left.name = <<"x", "F", "L">>
    /\ result[1].right.id = 84 /\ result[1].right.name = <<"x", "F", "R">>
    /\ ~IsGroup(result[2])

\* C9: when there is no next port, or it has another device, or its upper-cased
\* name mentions neither FL nor FR, the entry is the cursor port itself and the
\* cursor advances by 1.  A single port is listed as itself.
C9_MonoFallback ==
    Paired =>
        /\ \A k \in 1..Len(result) :
              LET c == Cursor(k)
                  ports == ListedPorts(call.op)
              IN  /\ c <= Len(ports)
                  /\ (~NextIsSameDevice(c) \/ PortLines[c + 1].channel = "none") =>
                        result[k] = ports[c]
        /\ Cursor(Len(result) + 1) = Len(PortLines) + 1
        /\ Len(PortLines) = 1 => result = ListedPorts(call.op)

\* three standalone ports: same device without FL/FR, another device, no next
C9_Witness ==
    /\ Paired
    /\ Len(PortLines) = 3
    /\ PortLines[2].device = PortLines[1].device
    /\ PortLines[3].device # PortLines[2].device
    /\ result = ListedPorts(call.op)

LINKS_COMMAND == <<"-", "-", "l", "i", "n", "k", "s">>
FLOWS_TO == <<"|", "-", ">">>
FLOWS_FROM == <<"|", "<", "-">>

\* @dataclass class Link
Link(id, input, output) ==
    [cls |-> "Link", id |-> id, input |-> input, output |-> output]

LinkGroup_without_links(common_device, common_name, links) ==
    [cls |-> "LinkGroup", common_device |-> common_device,
     common_name |-> common_name, links |-> <<>>]

LinkGroup_named_after_name(common_device, common_name, links) ==
    [cls |-> "LinkGroup", common_device |-> common_name,
     common_name |-> common_name, links |-> links]

\* @dataclass class LinkGroup
LinkGroup(common_device, common_name, links) ==
    [cls |-> "LinkGroup", common_device |-> common_device,
     common_name |-> common_name, links |-> links]

side_a_port_type_swapped(direction) ==
    IF direction = FLOWS_TO THEN INPUT ELSE OUTPUT

\* PortType.INPUT if direction == "|<-" else PortType.OUTPUT
side_a_port_type(direction) ==
    IF direction = FLOWS_FROM THEN INPUT ELSE OUTPUT

\* PortType.OUTPUT if direction == "|<-" else PortType.INPUT
side_b_port_type(direction) ==
    IF direction = FLOWS_FROM THEN OUTPUT ELSE INPUT

is_relation_line_flows_to_only(text) == str_contains(FLOWS_TO, text)

\* not (not "|->" in text and not "|<-" in text)
is_relation_line(text) ==
    str_contains(FLOWS_TO, text) \/ str_contains(FLOWS_FROM, text)

\* the inner while loop: the side "B" ports of one side "A" port, from line i
\* (i counts from 0, as in the source); gives the links so far and i after
RECURSIVE side_b_scan(_, _, _, _, _)
side_b_scan(lines, i, side_a_port, direction, links) ==
    IF ~(i < Len(lines)) THEN [exc |-> "none", links |-> links, i |-> i]
    ELSE
    LET cut == str_split_once(lines[i + 1][2], " ") IN
    IF Len(cut) < 2 THEN [exc |-> "IndexError", links |-> <<>>, i |-> i]
    ELSE
    LET id_data == str_split_once(str_strip(cut[2], Whitespace), " ") IN
    IF Len(id_data) # 2 THEN [exc |-> "ValueError", links |-> <<>>, i |-> i]
    ELSE
    LET device_name == str_split(id_data[2], ":")
        side_b_id == py_int(id_data[1])
        link_id == py_int(lines[i + 1][1])
    IN
    IF Len(device_name) # 2 \/ side_b_id.exc # "none" \/ link_id.exc # "none"
    THEN [exc |-> "ValueError", links |-> <<>>, i |-> i]
    ELSE
    LET side_b_port == Port("Port", device_name[1], device_name[2],
                            side_b_id.val, side_b_port_type(direction))
        link == IF side_a_port.port_type = INPUT
                THEN Link(link_id.val, side_a_port, side_b_port)
                ELSE Link(link_id.val, side_b_port, side_a_port)
    IN
    IF i + 1 = Len(lines) \/ ~is_relation_line(lines[i + 2][2])
    THEN [exc |-> "none", links |-> Append(links, link), i |-> i + 1]
    ELSE side_b_scan(lines, i + 1, side_a_port, direction, Append(links, link))

\* the head of the outer while loop's body: the side "A" port of line i
side_a(lines, i) ==
    LET device_name == str_split(lines[i + 1][2], ":")
        direction == str_split_once(lines[i + 2][2], " ")[1]
        id == py_int(lines[i + 1][1])
    IN  IF Len(device_name) # 2 \/ id.exc # "none"
        THEN [exc |-> "ValueError", port |-> None, direction |-> direction]
        ELSE [exc |-> "none",
              port |-> Port("Port", device_name[1], device_name[2], id.val,
                            side_a_port_type(direction)),
              direction |-> direction]

\* list_links, from the data sets of pw-link --links --id
RECURSIVE list_links_scan(_, _, _)
list_links_scan(lines, i, links) ==
    IF ~(i < Len(lines) - 1) THEN [exc |-> "none", val |-> links]
    ELSE LET a == side_a(lines, i) IN
         IF a.exc # "none" THEN [exc |-> a.exc, val |-> <<>>]
         ELSE LET scan == side_b_scan(lines, i + 1, a.port, a.direction, links)
              IN  IF scan.exc # "none" THEN [exc |-> scan.exc, val |-> <<>>]
                  ELSE list_links_scan(lines, scan.i, scan.links)

list_links(out) == list_links_scan(_split_id_from_data(out), 0, <<>>)

\* list_link_groups, from the data sets of pw-link --links --id
RECURSIVE list_link_groups_scan(_, _, _)
list_link_groups_scan(lines, i, link_groups) ==
    IF ~(i < Len(lines) - 1) THEN [exc |-> "none", val |-> link_groups]
    ELSE LET a == side_a(lines, i) IN
         IF a.exc # "none" THEN [exc |-> a.exc, val |-> <<>>]
         ELSE LET scan == side_b_scan(lines, i + 1, a.port, a.direction, <<>>)
              IN  IF scan.exc # "none" THEN [exc |-> scan.exc, val |-> <<>>]
                  ELSE list_link_groups_scan(lines, scan.i,
                          Append(link_groups,
                                 LinkGroup(a.port.device, a.port.name, scan.links)))

list_link_groups(out) == list_link_groups_scan(_split_id_from_data(out), 0, <<>>)

ListLinks ==
    LET outcome == list_links(stdout) IN
    /\ call' = [op |-> "list_links"]
    /\ raised' = outcome.exc
    /\ result' = outcome.val
    /\ executed' = <<listing_argv(LINKS_COMMAND)>>
    /\ graph' = quiet(graph)
    /\ UNCHANGED <<listing, stdout, first, _pipewire_configs>>

ListLinkGroups ==
    LET outcome == list_link_groups(stdout) IN
    /\ call' = [op |-> "list_link_groups"]
    /\ raised' = outcome.exc
    /\ result' = outcome.val
    /\ executed' = <<listing_argv(LINKS_COMMAND)>>
    /\ graph' = quiet(graph)
    /\ UNCHANGED <<listing, stdout, first, _pipewire_configs>>

(***************************************************************************)
(* The link listings pw-link may print: up to MaxLinkLines lines, port     *)
(* lines (anchors) and relation lines in any order.                        *)
(***************************************************************************)
MaxLinkLines == 4

Relation(id, num, glyph, peer, peer_num, device, name) ==
    [shape |-> "relation", lead |-> <<>>, id |-> id, num |-> num, glyph |-> glyph,
     peer |-> peer, peer_num |-> peer_num, device |-> device, name |-> name]

LinkLinePool ==
    { Line("port", <<>>, <<"8", "3">>, 83, <<"b">>, <<"F", "L">>, "FL"),
      Line("port", <<" ">>, <<"9", "0">>, 90, <<"a">>, <<"F", "L">>, "FL"),
      Relation(<<"9", "5">>, 95, FLOWS_TO, <<"9", "0">>, 90, <<"a">>, <<"F", "L">>),
      Relation(<<"9", "5">>, 95, FLOWS_FROM, <<"8", "3">>, 83, <<"b">>, <<"F", "L">>),
      Relation(<<"9", "6">>, 96, FLOWS_TO, <<"9", "1">>, 91, <<"a">>, <<"F", "R">>) }

LinkListings == UNION { [1..k -> LinkLinePool] : k \in 0..MaxLinkLines }

LinksInit ==
    /\ listing \in LinkListings
    /\ stdout = Printed(listing)
    /\ call = [op |-> "none"]
    /\ result = <<>>
    /\ raised = "none"
    /\ executed = <<>>
    /\ first = [op |-> "none"]
    /\ graph = NoPorts
    /\ _pipewire_configs = class_pipewire_configs

LinksNext == ListLinks \/ ListLinkGroups

LinksSpec == LinksInit /\ [][LinksNext]_vars

(***************************************************************************)
(* Stereo groups, links and stereo links                                   *)
(***************************************************************************)
\* a Python list held as one value
PyList(items) == [cls |-> "list", items |-> items]

\* @dataclass class StereoLink
StereoLink(left, right) == [cls |-> "StereoLink", left |-> left, right |-> right]

\* Port.connect(other) / Port.disconnect(other) as the stereo methods call
\* them, guarded by "if self.<channel> and other.<channel>": the commands
\* executed and whether the channel was done
channel(self_port, other_port, message, flags) ==
    IF self_port = None \/ other_port = None
    THEN [exc |-> "none", executed |-> <<>>, done |-> FALSE]
    ELSE LET joined == _join_arguments(self_port, other_port, message) IN
         IF joined.exc # "none"
         THEN [exc |-> joined.exc, executed |-> <<>>, done |-> FALSE]
         ELSE [exc |-> "none", executed |-> <<joined.args \o flags>>, done |-> TRUE]

skipped == [exc |-> "none", executed |-> <<>>, done |-> FALSE]

stereo_crossed(self, other) ==
    [cls |-> other.cls, left |-> other.right, right |-> other.left]

\* the other group as the stereo methods read it: left with left, right with right
stereo_straight(self, other) == other

\* if connections: if len(connections) > 1: return StereoLink(...)
\*                 return connections
\* return None
connections_result(connections) ==
    IF Len(connections) > 1 THEN StereoLink(connections[1], connections[2])
    ELSE IF Len(connections) = 1 THEN PyList(connections)
    ELSE None

\* StereoInput.connect(self, other) and StereoOutput.connect(self, other)
stereo_connect(self, other) ==
    LET peer == stereo_straight(self, other)
        left == channel(self.left, peer.left, CONNECT_MESSAGE, <<>>)
        right == IF left.exc # "none" THEN skipped
                 ELSE channel(self.right, peer.right, CONNECT_MESSAGE, <<>>)
        link(mine, theirs) == IF self.cls = "StereoInput"
                              THEN Link(None, mine, theirs)
                              ELSE Link(None, theirs, mine)
        connections ==
            (IF left.done THEN <<link(self.left, peer.left)>> ELSE <<>>)
            \o (IF right.done THEN <<link(self.right, peer.right)>> ELSE <<>>)
    IN  IF left.exc # "none" \/ right.exc # "none"
        THEN [exc |-> IF left.exc # "none" THEN left.exc ELSE right.exc,
              executed |-> left.executed \o right.executed, val |-> <<>>]
        ELSE [exc |-> "none", executed |-> left.executed \o right.executed,
              val |-> <<connections_result(connections)>>]

\* StereoInput.disconnect(self, other) and StereoOutput.disconnect(self, other)
stereo_disconnect(self, other) ==
    LET peer == stereo_straight(self, other)
        left == channel(self.left, peer.left, DISCONNECT_MESSAGE, <<DISCONNECT_FLAG>>)
        right == IF left.exc # "none" THEN skipped
                 ELSE channel(self.right, peer.right, DISCONNECT_MESSAGE,
                              <<DISCONNECT_FLAG>>)
    IN  [exc |-> IF left.exc # "none" THEN left.exc ELSE right.exc,
         executed |-> left.executed \o right.executed,
         val |-> IF left.exc # "none" \/ right.exc # "none" THEN <<>> ELSE <<None>>]

link_disconnect_connects(self) ==
    channel(self.input, self.output, CONNECT_MESSAGE, <<>>)

\* Link.disconnect(self): self.input.disconnect(self.output)
link_disconnect(self) ==
    channel(self.input, self.output, DISCONNECT_MESSAGE, <<DISCONNECT_FLAG>>)

\* Link.reconnect(self): self.input.connect(self.output)
link_reconnect(self) ==
    channel(self.input, self.output, CONNECT_MESSAGE, <<>>)

receiver_swaps_ends(obj) ==
    IF obj.cls = "Link"
    THEN [obj EXCEPT !.input = obj.output, !.output = obj.input]
    ELSE [obj EXCEPT !.left = obj.right, !.right = obj.left]

\* the receiver after one of its methods ran: no method assigns to a field
receiver_after(obj) == obj

\* for link in self.links: link.disconnect()
RECURSIVE disconnect_each(_)
disconnect_each(links) ==
    IF links = <<>> THEN skipped
    ELSE LET head == link_disconnect(Head(links))
             tail == IF head.exc # "none" THEN skipped ELSE disconnect_each(Tail(links))
         IN  [exc |-> IF head.exc # "none" THEN head.exc ELSE tail.exc,
              executed |-> head.executed \o tail.executed,
              done |-> head.done /\ tail.done]

\* LinkGroup.disconnect(self)
link_group_disconnect(self) == disconnect_each(self.links)

\* LinkGroup.reconnect(self): for link in self.links: link.disconnect()
link_group_reconnect(self) == disconnect_each(self.links)

\* obj.disconnect() / obj.reconnect() with no argument, on a value a call
\* returned: a Link, a StereoLink (left then right), or a value without the
\* method (a list, None)
method_call(obj, method) ==
    LET one(link) == IF method = "disconnect" THEN link_disconnect(link)
                     ELSE link_reconnect(link)
    IN  IF obj.cls = "Link"
        THEN [exc |-> one(obj).exc, executed |-> one(obj).executed,
              self |-> receiver_after(obj)]
        ELSE IF obj.cls = "StereoLink"
        THEN LET left == one(obj.left)
                 right == IF left.exc # "none" THEN skipped ELSE one(obj.right)
             IN  [exc |-> IF left.exc # "none" THEN left.exc ELSE right.exc,
                  executed |-> left.executed \o right.executed,
                  self |-> receiver_after(obj)]
        ELSE [exc |-> "AttributeError", executed |-> <<>>, self |-> obj]

\* group.disconnect() / group.reconnect() on a LinkGroup: its links in order
link_group_method_call(group, method) ==
    LET each == IF method = "disconnect" THEN link_group_disconnect(group)
                ELSE link_group_reconnect(group)
    IN  [exc |-> each.exc, executed |-> each.executed, self |-> receiver_after(group)]

\* StereoLink.inputs: StereoInput(left=self.left, right=self.right)
stereo_link_inputs(self) == Stereo("StereoInput", self.left, self.right)

\* StereoLink.outputs: StereoOutput(left=self.left, right=self.right)
stereo_link_outputs(self) == Stereo("StereoOutput", self.left, self.right)

\* the values of the last call that the caller holds
ObjectCalls ==
    {"StereoInput.connect", "StereoOutput.connect", "Link", "list_links",
     "list_link_groups", "disconnect()", "reconnect()"}

StereoConnect(self, other) ==
    LET outcome == stereo_connect(self, other) IN
    /\ call' = [op |-> self.cls \o ".connect", self |-> self, other |-> other]
    /\ raised' = outcome.exc
    /\ executed' = outcome.executed
    /\ result' = outcome.val
    /\ graph' = pw_link_all(quiet(graph), executed')
    /\ UNCHANGED <<listing, stdout, first, _pipewire_configs>>

StereoDisconnect(self, other) ==
    LET outcome == stereo_disconnect(self, other) IN
    /\ call' = [op |-> self.cls \o ".disconnect", self |-> self, other |-> other]
    /\ raised' = outcome.exc
    /\ executed' = outcome.executed
    /\ result' = outcome.val
    /\ graph' = pw_link_all(quiet(graph), executed')
    /\ UNCHANGED <<listing, stdout, first, _pipewire_configs>>

\* Link(input=input, output=output, id=None): the dataclass constructor
ConstructLink(input, output) ==
    /\ call' = [op |-> "Link", input |-> input, output |-> output]
    /\ raised' = "none"
    /\ executed' = <<>>
    /\ result' = <<Link(None, input, output)>>
    /\ graph' = quiet(graph)
    /\ UNCHANGED <<listing, stdout, first, _pipewire_configs>>

\* result[k].disconnect() / result[k].reconnect(): the caller keeps the
\* values it holds, the receiver among them
MethodCall(k, method) ==
    /\ call.op \in ObjectCalls
    /\ k \in 1..Len(result)
    /\ LET outcome == method_call(result[k], method) IN
       /\ call' = [op |-> method \o "()", self |-> result[k], k |-> k]
       /\ raised' = outcome.exc
       /\ executed' = outcome.executed
       /\ result' = [result EXCEPT ![k] = outcome.self]
       /\ graph' = pw_link_all(quiet(graph), executed')
    /\ UNCHANGED <<listing, stdout, first, _pipewire_configs>>

\* result[k].disconnect() / result[k].reconnect() on a LinkGroup of the list
\* the caller holds
LinkGroupMethodCall(k, method) ==
    /\ call.op \in ObjectCalls
    /\ k \in 1..Len(result)
    /\ result[k].cls = "LinkGroup"
    /\ LET outcome == link_group_method_call(result[k], method) IN
       /\ call' = [op |-> method \o "()", self |-> result[k], k |-> k]
       /\ raised' = outcome.exc
       /\ executed' = outcome.executed
       /\ result' = [result EXCEPT ![k] = outcome.self]
       /\ graph' = pw_link_all(quiet(graph), executed')
    /\ UNCHANGED <<listing, stdout, first, _pipewire_configs>>

\* result[1].inputs / result[1].outputs of a StereoLink
StereoLinkInputs ==
    /\ call.op \in ObjectCalls
    /\ Len(result) = 1
    /\ result[1].cls = "StereoLink"
    /\ call' = [op |-> "StereoLink.inputs", self |-> result[1]]
    /\ raised' = "none"
    /\ executed' = <<>>
    /\ result' = <<stereo_link_inputs(result[1])>>
    /\ graph' = quiet(graph)
    /\ UNCHANGED <<listing, stdout, first, _pipewire_configs>>

StereoLinkOutputs ==
    /\ call.op \in ObjectCalls
    /\ Len(result) = 1
    /\ result[1].cls = "StereoLink"
    /\ call' = [op |-> "StereoLink.outputs", self |-> result[1]]
    /\ raised' = "none"
    /\ executed' = <<>>
    /\ result' = <<stereo_link_outputs(result[1])>>
    /\ graph' = quiet(graph)
    /\ UNCHANGED <<listing, stdout, first, _pipewire_configs>>

(***************************************************************************)
(* A PipeWire graph with the two output ports of device b and the two      *)
(* input ports of device a, and what pw-link prints for it.                *)
(***************************************************************************)
GraphOutputs ==
    << Line("port", <<>>, <<"8", "3">>, 83, <<"b">>, <<"F", "L">>, "FL"),
       Line("port", <<>>, <<"8", "4">>, 84, <<"b">>, <<"F", "R">>, "FR") >>

GraphInputs ==
    << Line("port", <<>>, <<"9", "0">>, 90, <<"a">>, <<"F", "L">>, "FL"),
       Line("port", <<>>, <<"9", "1">>, 91, <<"a">>, <<"F", "R">>, "FR") >>

\* the id the graph gives each link
GraphLinks ==
    { [output |-> 83, input |-> 90, id |-> <<"9", "5">>, num |-> 95],
      [output |-> 83, input |-> 91, id |-> <<"9", "6">>, num |-> 96],
      [output |-> 84, input |-> 90, id |-> <<"9", "7">>, num |-> 97],
      [output |-> 84, input |-> 91, id |-> <<"9", "8">>, num |-> 98] }

link_between(port, peer, port_is_output) ==
    IF port_is_output THEN [output |-> port.num, input |-> peer.num]
    ELSE [output |-> peer.num, input |-> port.num]

\* a port line and one relation line for each link of the port;
\* nothing for a port without links
port_block(g, port, peers, glyph, port_is_output) ==
    LET linked(peer) == link_between(port, peer, port_is_output) \in g.links
        others == SelectSeq(peers, linked)
        named(peer) == CHOOSE l \in GraphLinks :
                           [output |-> l.output, input |-> l.input]
                               = link_between(port, peer, port_is_output)
    IN  IF others = <<>> THEN <<>>
        ELSE <<port>> \o
             [k \in 1..Len(others) |->
                 Relation(named(others[k]).id, named(others[k]).num, glyph,
                          others[k].id, others[k].num,
                          others[k].device, others[k].name)]

RECURSIVE port_blocks(_, _, _, _, _)
port_blocks(g, ports, peers, glyph, port_is_output) ==
    IF ports = <<>> THEN <<>>
    ELSE port_block(g, Head(ports), peers, glyph, port_is_output)
         \o port_blocks(g, Tail(ports), peers, glyph, port_is_output)

\* the lines of pw-link --links --id
links_listing(g) ==
    port_blocks(g, g.outputs, g.inputs, FLOWS_TO, TRUE)
    \o port_blocks(g, g.inputs, g.outputs, FLOWS_FROM, FALSE)

\* list_links() on the graph: pw-link prints its links, list_links parses them
GraphListLinks ==
    LET outcome == list_links(Printed(links_listing(graph))) IN
    /\ call' = [op |-> "list_links"]
    /\ raised' = outcome.exc
    /\ result' = outcome.val
    /\ executed' = <<listing_argv(LINKS_COMMAND)>>
    /\ graph' = quiet(graph)
    /\ UNCHANGED <<listing, stdout, first, _pipewire_configs>>

\* list_link_groups() on the graph
GraphListLinkGroups ==
    LET outcome == list_link_groups(Printed(links_listing(graph))) IN
    /\ call' = [op |-> "list_link_groups"]
    /\ raised' = outcome.exc
    /\ result' = outcome.val
    /\ executed' = <<listing_argv(LINKS_COMMAND)>>
    /\ graph' = quiet(graph)
    /\ UNCHANGED <<listing, stdout, first, _pipewire_configs>>

\* list_inputs() / list_outputs() on the graph
graph_inputs(g) == list_inputs(Printed(g.inputs), Printed(g.inputs), TRUE).val

graph_outputs(g) == list_outputs(Printed(g.outputs), TRUE).val

\* test_list, "Disconnect everything": the commands of
\* for out_dev in list_outputs(): if isinstance(...): in_dev.disconnect(out_dev)
RECURSIVE disconnect_from_each(_, _)
disconnect_from_each(in_dev, out_devs) ==
    IF out_devs = <<>> THEN <<>>
    ELSE (IF in_dev.cls = "StereoInput" /\ Head(out_devs).cls = "StereoOutput"
          THEN stereo_disconnect(in_dev, Head(out_devs)).executed
          ELSE <<>>)
         \o disconnect_from_each(in_dev, Tail(out_devs))

\* for in_dev in list_inputs(): for out_dev in list_outputs(): ...
RECURSIVE disconnect_everything(_, _)
disconnect_everything(in_devs, out_devs) ==
    IF in_devs = <<>> THEN <<>>
    ELSE <<listing_argv(OUTPUT_COMMAND)>>
         \o disconnect_from_each(Head(in_devs), out_devs)
         \o disconnect_everything(Tail(in_devs), out_devs)

\* the link commands among the commands of a call
link_commands(commands) ==
    LET links(argv) == argv[2] \notin {INPUT_COMMAND, OUTPUT_COMMAND, LINKS_COMMAND}
    IN  SelectSeq(commands, links)

\* test_list() of src/tests/test_links.py; result is the list it asserts empty
test_list ==
    LET inputs == graph_inputs(graph)
        outputs == graph_outputs(graph)
        list_inputs_argv == <<listing_argv(INPUT_COMMAND), listing_argv(INPUT_COMMAND)>>
        unlinking == disconnect_everything(inputs, outputs)
        after == pw_link_all(quiet(graph), link_commands(unlinking))
        links == list_links(Printed(links_listing(after)))
    IN
    /\ call' = [op |-> "test_list"]
    /\ IF Len(inputs) = 0
       THEN /\ executed' = <<listing_argv(INPUT_COMMAND)>>
            /\ raised' = "none"
            /\ result' = <<>>
            /\ graph' = quiet(graph)
       ELSE IF Len(outputs) = 0
       THEN /\ executed' = list_inputs_argv \o list_inputs_argv
                             \o <<listing_argv(OUTPUT_COMMAND)>>
            /\ raised' = "AssertionError"
            /\ result' = <<>>
            /\ graph' = quiet(graph)
       ELSE /\ executed' = list_inputs_argv \o list_inputs_argv
                             \o <<listing_argv(OUTPUT_COMMAND)>>
                             \o list_inputs_argv \o unlinking
                             \o <<listing_argv(LINKS_COMMAND)>>
            /\ raised' = IF links.exc # "none" THEN links.exc
                         ELSE IF Len(links.val) # 0 THEN "AssertionError"
                         ELSE "none"
            /\ result' = links.val
            /\ graph' = after
    /\ UNCHANGED <<listing, stdout, first, _pipewire_configs>>

\* the Port objects of the graph's ports
InputPorts ==
    { Port("Input", GraphInputs[k].device, GraphInputs[k].name, GraphInputs[k].num, INPUT) :
        k \in 1..Len(GraphInputs) }

OutputPorts ==
    { Port("Output", GraphOutputs[k].device, GraphOutputs[k].name, GraphOutputs[k].num, OUTPUT) :
        k \in 1..Len(GraphOutputs) }

GraphPorts == InputPorts \cup OutputPorts

\* the stereo groups of a device's FL and FR ports, as listed or built by
\* hand with a channel left out (None)
WithAbsent(cls, ports) ==
    { Stereo(cls, left, right) :
        left \in {None} \cup { p \in ports : p.name = FL },
        right \in {None} \cup { p \in ports : p.name = FR } }

StereoInputs == WithAbsent("StereoInput", InputPorts)

StereoOutputs == WithAbsent("StereoOutput", OutputPorts)

GraphInit ==
    /\ listing = <<>>
    /\ stdout = <<>>
    /\ call = [op |-> "none"]
    /\ result = <<>>
    /\ raised = "none"
    /\ executed = <<>>
    /\ first = [op |-> "none"]
    /\ _pipewire_configs = class_pipewire_configs
    /\ graph \in { [outputs |-> GraphOutputs, inputs |-> GraphInputs,
                    links |-> links, stderr |-> ""] :
                   links \in SUBSET { [output |-> l.output, input |-> l.input] :
                                      l \in GraphLinks } }

GraphNext ==
    \/ \E self \in StereoInputs, other \in StereoOutputs : StereoConnect(self, other)
    \/ \E self \in StereoOutputs, other \in StereoInputs : StereoConnect(self, other)
    \/ \E self \in StereoInputs, other \in StereoOutputs : StereoDisconnect(self, other)
    \/ \E self \in StereoOutputs, other \in StereoInputs : StereoDisconnect(self, other)
    \/ \E self \in GraphPorts, other \in GraphPorts : connect(self, other)
    \/ \E self \in GraphPorts, other \in GraphPorts : disconnect(self, other)
    \/ \E input \in GraphPorts, output \in GraphPorts : ConstructLink(input, output)
    \/ \E k \in 1..Len(result), method \in {"disconnect", "reconnect"} :
           MethodCall(k, method)
    \/ StereoLinkInputs
    \/ StereoLinkOutputs
    \/ GraphListLinks
    \/ test_list

GraphSpec == GraphInit /\ [][GraphNext]_vars

(***************************************************************************)
(* The link groups of the graph and what is called on them.                *)
(***************************************************************************)
GroupNext ==
    \/ GraphListLinkGroups
    \/ \E k \in 1..Len(result), method \in {"disconnect", "reconnect"} :
           LinkGroupMethodCall(k, method)

GroupSpec == GraphInit /\ [][GroupNext]_vars

(***************************************************************************)
(* Stereo groups built by hand: the dataclasses take any port as left and  *)
(* as right, so a group may hold ports of both directions, and connect and *)
(* disconnect take any group as other.                                     *)
(***************************************************************************)
HandBuiltGroups ==
    { Stereo(cls, left, right) :
        cls \in {"StereoInput", "StereoOutput"},
        left \in { p \in GraphPorts : p.name = FL },
        right \in { p \in InputPorts : p.name = FR } }

StereoNext ==
    \/ \E self \in HandBuiltGroups, other \in HandBuiltGroups : StereoConnect(self, other)
    \/ \E self \in HandBuiltGroups, other \in HandBuiltGroups : StereoDisconnect(self, other)

StereoSpec == GraphInit /\ [][StereoNext]_vars

(***************************************************************************)
(* Controller.set_config.  A Python value is [cls, val]: an int, a bool    *)
(* (val 1 for True, 0 for False), a float with a whole value, or a str     *)
(* (val its characters); None is the value without val.                    *)
(***************************************************************************)
QualityMargin == 1

PyInt(n) == [cls |-> "int", val |-> n]
PyBool(b) == [cls |-> "bool", val |-> IF b THEN 1 ELSE 0]
PyFloat(n) == [cls |-> "float", val |-> n]
PyStr(chars) == [cls |-> "str", val |-> chars]

RECOMMENDED_RATES ==
    {8000, 11025, 16000, 22050, 44100, 48000, 88200, 96000, 176400, 192000,
     352800, 384000}

RECOMMENDED_FORMATS ==
    { <<"u", "8">>, <<"s", "8">>, <<"s", "1", "6">>, <<"s", "3", "2">>,
      <<"f", "3", "2">>, <<"f", "6", "4">> }

\* bool(value): None, zero, False and the empty string are false
truthy(value) ==
    IF value.cls = "None" THEN FALSE
    ELSE IF value.cls = "str" THEN Len(value.val) > 0
    ELSE value.val # 0

DigitChar(n) == CHOOSE c \in Digits : DigitVal(c) = n

RECURSIVE decimal(_)
decimal(n) ==
    IF n < 10 THEN <<DigitChar(n)>> ELSE decimal(n \div 10) \o <<DigitChar(n % 10)>>

\* str(value)
py_str(value) ==
    IF value.cls = "str" THEN value.val
    ELSE IF value.cls = "bool"
    THEN IF value.val = 1 THEN <<"T", "r", "u", "e">> ELSE <<"F", "a", "l", "s", "e">>
    ELSE (IF value.val < 0 THEN <<"-">> \o decimal(0 - value.val) ELSE decimal(value.val))
         \o (IF value.cls = "float" THEN <<".", "0">> ELSE <<>>)

\* value in [numbers]: a number equal to one of them, whatever its type
in_numbers(value, numbers) == value.cls # "str" /\ value.val \in numbers

\* value in [strings]
in_strings(value, strings) == value.cls = "str" /\ value.val \in strings

\* 0 <= quality <= 15
quality_in_range(quality) ==
    IF quality.cls = "str" THEN "TypeError"
    ELSE IF 0 <= quality.val /\ quality.val <= 15 THEN "yes" ELSE "no"

\* one option of set_config: if value: (store str(value) if it is verified,
\* else raise ValueError) elif value is None: pass else: raise ValueError
verified(configs, option, value, verdict) ==
    IF truthy(value)
    THEN IF verdict = "yes"
         THEN [exc |-> "none", configs |-> [configs EXCEPT ![option] = py_str(value)]]
         ELSE [exc |-> IF verdict = "no" THEN "ValueError" ELSE verdict,
               configs |-> configs]
    ELSE IF value.cls = "None" THEN [exc |-> "none", configs |-> configs]
    ELSE [exc |-> "ValueError", configs |-> configs]

\* set_config(rate=, channels=, _format=, quality=), the other arguments left
\* at their default None: the options in the order of the source, up to the
\* first that raises
set_config(configs, rate, channels, _format, quality) ==
    LET yes(b) == IF b THEN "yes" ELSE "no"
        r6 == verified(configs, "--rate", rate, yes(in_numbers(rate, RECOMMENDED_RATES)))
        r7 == IF r6.exc # "none" THEN r6
              ELSE verified(r6.configs, "--channels", channels,
                            yes(in_numbers(channels, {1, 2})))
        r9 == IF r7.exc # "none" THEN r7
              ELSE verified(r7.configs, "--format", _format,
                            yes(in_strings(_format, RECOMMENDED_FORMATS)))
    IN  IF r9.exc # "none" THEN r9
        ELSE verified(r9.configs, "--quality", quality,
                      IF truthy(quality) THEN quality_in_range(quality) ELSE "no")

SetConfig(rate, channels, _format, quality) ==
    LET outcome == set_config(_pipewire_configs, rate, channels, _format, quality) IN
    /\ call' = [op |-> "set_config", rate |-> rate, channels |-> channels,
                _format |-> _format, quality |-> quality]
    /\ raised' = outcome.exc
    /\ result' = <<>>
    /\ executed' = <<>>
    /\ _pipewire_configs' = outcome.configs
    /\ UNCHANGED <<listing, stdout, first, graph>>

\* the defaults Controller() loads from pw-cat -h
default_pipewire_configs ==
    [option \in DOMAIN class_pipewire_configs |->
        IF option = "--rate" THEN <<"4", "8", "0", "0", "0">>
        ELSE IF option = "--channels" THEN <<"2">>
        ELSE IF option = "--format" THEN <<"s", "1", "6">>
        ELSE <<"4">>]

RatePool ==
    {None, PyInt(0), PyInt(384000), PyInt(12345), PyFloat(44100)}

ChannelsPool == {None, PyInt(0), PyInt(1), PyInt(3), PyBool(TRUE)}

FormatPool ==
    {None, PyStr(<<>>), PyStr(<<"f", "6", "4">>), PyStr(<<"m", "p", "3">>)}

QualityPool == { PyInt(q) : q \in (0 - QualityMargin)..(15 + QualityMargin) }

ControllerInit ==
    /\ listing = <<>>
    /\ stdout = <<>>
    /\ call = [op |-> "none"]
    /\ result = <<>>
    /\ raised = "none"
    /\ executed = <<>>
    /\ first = [op |-> "none"]
    /\ graph = NoPorts
    /\ _pipewire_configs = default_pipewire_configs

ControllerNext ==
    \/ \E rate \in RatePool, channels \in ChannelsPool, _format \in FormatPool :
           SetConfig(rate, channels, _format, None)
    \/ \E quality \in QualityPool : SetConfig(None, None, None, quality)

ControllerSpec == ControllerInit /\ [][ControllerNext]_vars

(***************************************************************************)
(* list_inputs while the ports of the system change: pw-link --input --id  *)
(* is run twice by one call, and what it prints the second time need not   *)
(* be what it printed the first time.                                      *)
(***************************************************************************)
MaxRaceLines == 2

RaceLinePool ==
    { Line("port", <<>>, <<"8", "3">>, 83, <<"a">>, <<"x", "F", "L">>, "FL"),
      Line("port", <<>>, <<"8", "4">>, 84, <<"a">>, <<"x", "F", "R">>, "FR"),
      Line("no_colon", <<>>, <<"7">>, 7, <<>>, <<"h", "d", "r">>, "none") }

RaceListings == UNION { [1..k -> RaceLinePool] : k \in 0..MaxRaceLines }

\* list_inputs(pair_stereo), the listing printed becoming changed after the
\* first invocation of pw-link --input --id
ListInputsRacing(pair_stereo, changed) ==
    LET outcome == list_inputs(stdout, Printed(changed), pair_stereo) IN
    /\ call' = [op |-> "list_inputs", pair_stereo |-> pair_stereo,
                first_out |-> stdout]
    /\ listing' = changed
    /\ stdout' = Printed(changed)
    /\ raised' = outcome.exc
    /\ result' = outcome.val
    /\ executed' = IF Len(_split_id_from_data(stdout)) = 0
                   THEN <<listing_argv(INPUT_COMMAND)>>
                   ELSE <<listing_argv(INPUT_COMMAND), listing_argv(INPUT_COMMAND)>>
    /\ graph' = quiet(graph)
    /\ UNCHANGED <<first, _pipewire_configs>>

RaceInit ==
    /\ listing \in RaceListings
    /\ stdout = Printed(listing)
    /\ call = [op |-> "none"]
    /\ result = <<>>
    /\ raised = "none"
    /\ executed = <<>>
    /\ first = [op |-> "none"]
    /\ graph = NoPorts
    /\ _pipewire_configs = class_pipewire_configs

RaceNext ==
    \E pair_stereo \in BOOLEAN, changed \in RaceListings :
        ListInputsRacing(pair_stereo, changed)

RaceSpec == RaceInit /\ [][RaceNext]_vars

(***************************************************************************)
(* Properties of the link listing parser, under LinksSpec                  *)
(***************************************************************************)
\* each anchor line is followed by one or more relation lines
WellFormedLinks ==
    /\ Len(listing) > 0 => listing[1].shape = "port"
    /\ \A i \in 1..Len(listing) :
           listing[i].shape = "port" =>
               i < Len(listing) /\ listing[i + 1].shape = "relation"

RelationLines == { i \in 1..Len(listing) : listing[i].shape = "relation" }

\* the k-th relation line of the listing
RelationAt(k) ==
    CHOOSE i \in RelationLines :
        Cardinality({ j \in RelationLines : j <= i }) = k

\* the nearest anchor line before line i
AnchorOf(i) ==
    CHOOSE j \in 1..i :
        /\ listing[j].shape = "port"
        /\ \A m \in (j + 1)..i : listing[m].shape = "relation"

\* the port a listing line names
NamedPort(line) ==
    [device |-> line.device, name |-> line.name,
     id |-> IF line.shape = "relation" THEN line.peer_num ELSE line.num]

Identity(port) == [device |-> port.device, name |-> port.name, id |-> port.id]

\* C11: for a well-formed link listing list_links returns one Link per
\* relation line, in listing order, the k-th joining the port of the k-th
\* relation line with the port of the nearest anchor line before it.
C11_OneLinkPerRelationLine ==
    (call.op = "list_links" /\ WellFormedLinks) =>
        /\ raised = "none"
        /\ Len(result) = Cardinality(RelationLines)
        /\ \A k \in 1..Len(result) :
               LET r == RelationAt(k) IN
               /\ result[k].cls = "Link"
               /\ result[k].id = listing[r].num
               /\ {Identity(result[k].input), Identity(result[k].output)}
                      = {NamedPort(listing[r]), NamedPort(listing[AnchorOf(r)])}

\* an anchor with two relation lines gave two Links sharing the anchor port
C11_Witness ==
    /\ call.op = "list_links"
    /\ WellFormedLinks
    /\ Len(listing) = 3
    /\ Len(result) = 2
    /\ result[1].input = result[2].input
    /\ result[1].output # result[2].output
    /\ Identity(result[1].input) = NamedPort(listing[1])

RECURSIVE AllLinks(_)
AllLinks(groups) ==
    IF groups = <<>> THEN <<>> ELSE Head(groups).links \o AllLinks(Tail(groups))

\* the Links returned, those inside the LinkGroups included, in order
ReturnedLinks ==
    IF raised # "none" THEN <<>>
    ELSE IF call.op = "list_links" THEN result
    ELSE IF call.op = "list_link_groups" THEN AllLinks(result)
    ELSE <<>>

\* C12: every Link of list_links and of list_link_groups has an INPUT port
\* as input and an OUTPUT port as output; the anchor port is the input side
\* exactly when the relation line after the anchor carries "|<-", and the
\* relation line's port is the other side.
C12_LinkDirections ==
    /\ \A k \in 1..Len(ReturnedLinks) :
           /\ ReturnedLinks[k].input.port_type = INPUT
           /\ ReturnedLinks[k].output.port_type = OUTPUT
    /\ WellFormedLinks =>
           \A k \in 1..Len(ReturnedLinks) :
               k <= Cardinality(RelationLines) =>
                   LET r == RelationAt(k)
                       a == AnchorOf(r)
                       link == ReturnedLinks[k]
                   IN  IF listing[a + 1].glyph = FLOWS_FROM
                       THEN /\ Identity(link.input) = NamedPort(listing[a])
                            /\ Identity(link.output) = NamedPort(listing[r])
                       ELSE /\ Identity(link.output) = NamedPort(listing[a])
                            /\ Identity(link.input) = NamedPort(listing[r])

\* a group whose anchor is the input side, after an anchor that is the output side
C12_Witness ==
    /\ call.op = "list_link_groups"
    /\ WellFormedLinks
    /\ Len(listing) = 4
    /\ Len(ReturnedLinks) = 2
    /\ listing[2].glyph = FLOWS_TO
    /\ listing[4].glyph = FLOWS_FROM
    /\ Identity(ReturnedLinks[1].output) = NamedPort(listing[1])
    /\ Identity(ReturnedLinks[2].input) = NamedPort(listing[3])
    /\ ReturnedLinks[2].input.port_type = INPUT

(***************************************************************************)
(* Properties of links and stereo groups, under GraphSpec                  *)
(***************************************************************************)
\* C13: constructing a Link fails unless its input port is an INPUT port and
\* its output port an OUTPUT port.
C13_LinkConstructionValidates ==
    call.op = "Link" =>
        (raised = "none" <=>
            (call.input.port_type = INPUT /\ call.output.port_type = OUTPUT))

StereoConnectCalls == {"StereoInput.connect", "StereoOutput.connect"}

StereoDisconnectCalls == {"StereoInput.disconnect", "StereoOutput.disconnect"}

\* the command of one channel of a stereo call: output first, input second
ChannelCommand(mine, theirs) ==
    <<PW_LINK_COMMAND, Endpoint(OutputOf(mine, theirs)), Endpoint(InputOf(mine, theirs))>>
    \o (IF call.op \in StereoDisconnectCalls THEN <<DISCONNECT_FLAG>> ELSE <<>>)

LeftPresent == call.self.left # None /\ call.other.left # None

RightPresent == call.self.right # None /\ call.other.right # None

\* C14: a stereo connect or disconnect runs the port operation for left with
\* left and right with right, for exactly the channels present on both
\* sides, and a channel present on one side only does not make it fail.
C14_StraightStereo ==
    call.op \in StereoConnectCalls \cup StereoDisconnectCalls =>
        /\ raised = "none"
        /\ executed =
             (IF LeftPresent
              THEN <<ChannelCommand(call.self.left, call.other.left)>> ELSE <<>>)
             \o (IF RightPresent
                 THEN <<ChannelCommand(call.self.right, call.other.right)>> ELSE <<>>)

\* the left channel is present on one side only: only the right one is linked
C14_Witness ==
    /\ call.op = "StereoOutput.connect"
    /\ call.self.left # None
    /\ call.other.left = None
    /\ RightPresent
    /\ raised = "none"
    /\ Len(executed) = 1
    /\ [output |-> call.self.right.id, input |-> call.other.right.id] \in graph.links
    /\ graph.stderr = ""

\* C15: a stereo connect returns a StereoLink when both channels were
\* connected, one Link when exactly one was, None when none was, and every
\* Link returned has the INPUT port as input and the OUTPUT port as output.
C15_ConnectResult ==
    call.op \in StereoConnectCalls =>
        /\ raised = "none"
        /\ Len(result) = 1
        /\ IF LeftPresent /\ RightPresent
           THEN /\ result[1].cls = "StereoLink"
                /\ result[1].left.input.port_type = INPUT
                /\ result[1].left.output.port_type = OUTPUT
                /\ result[1].right.input.port_type = INPUT
                /\ result[1].right.output.port_type = OUTPUT
           ELSE IF LeftPresent \/ RightPresent
           THEN /\ result[1].cls = "Link"
                /\ result[1].input.port_type = INPUT
                /\ result[1].output.port_type = OUTPUT
           ELSE result[1] = None

\* C16: after every listed StereoInput was disconnected from every listed
\* StereoOutput, list_links() returns an empty list, whatever the links of
\* the graph were.
C16_DisconnectingClearsLinks ==
    call.op = "test_list" => (raised = "none" /\ result = <<>>)

\* a stereo group as list_inputs() / list_outputs() gives it
Listed(group) ==
    \/ \E k \in 1..Len(graph_inputs(graph)) : graph_inputs(graph)[k] = group
    \/ \E k \in 1..Len(graph_outputs(graph)) : graph_outputs(graph)[k] = group

\* the graph links between the channels of the two groups of a stereo call
LinkedBy(self, other) ==
    { [output |-> OutputOf(self.left, other.left).id,
       input |-> InputOf(self.left, other.left).id],
      [output |-> OutputOf(self.right, other.right).id,
       input |-> InputOf(self.right, other.right).id] }

\* C17: in_dev.connect(out_dev) of a listed StereoInput and a listed
\* StereoOutput returns an object with a disconnect(), and calling it runs
\* the disconnect command of exactly the port pairs the connect linked, so
\* that none of these links remains.
C17_ConnectResultDisconnects ==
    [][ (/\ call.op = "StereoInput.connect"
         /\ Listed(call.self)
         /\ Listed(call.other)) =>
            /\ raised = "none"
            /\ Len(result) = 1
            /\ result[1].cls \in {"Link", "StereoLink"}
            /\ call'.op = "disconnect()" =>
                  /\ raised' = "none"
                  /\ Len(executed) = 2
                  /\ executed' = [k \in 1..Len(executed) |->
                                     Append(executed[k], DISCONNECT_FLAG)]
                  /\ graph'.links \cap LinkedBy(call.self, call.other) = {}
                  /\ graph'.links = graph.links \ LinkedBy(call.self, call.other) ]_vars

\* the StereoLink of a connect was disconnected and both its links are gone
C17_Witness ==
    /\ call.op = "disconnect()"
    /\ call.self.cls = "StereoLink"
    /\ call.self.left.input.port_type = INPUT
    /\ raised = "none"
    /\ Len(executed) = 2
    /\ graph.stderr = ""
    /\ [output |-> call.self.left.output.id, input |-> call.self.left.input.id]
           \notin graph.links
    /\ [output |-> call.self.right.output.id, input |-> call.self.right.input.id]
           \notin graph.links

\* C18: connect and disconnect of an output/input pair never raise and run
\* the same argument vector whatever the graph holds: a call repeated on a
\* pair already connected, or already disconnected, runs what the first ran.
C18_ArgumentsIgnoreGraph ==
    [][ (/\ call'.op \in LinkCalls
         /\ call'.self.port_type # call'.other.port_type) =>
            /\ raised' = "none"
            /\ Len(executed') = 1
            /\ call' = call => executed' = executed ]_vars

\* connect ran on a pair that was connected already; pw-link refused it
C18_Witness ==
    /\ call.op = "connect"
    /\ raised = "none"
    /\ Len(executed) = 1
    /\ graph.stderr = "File exists"
    /\ [output |-> OutputOf(call.self, call.other).id,
        input |-> InputOf(call.self, call.other).id] \in graph.links

C20_StereoLinkViews ==
    /\ call.op = "StereoLink.inputs" =>
           result = <<Stereo("StereoInput", call.self.left.input, call.self.right.input)>>
    /\ call.op = "StereoLink.outputs" =>
           result = <<Stereo("StereoOutput", call.self.left.output, call.self.right.output)>>

\* the graph links a Link, a StereoLink or a LinkGroup stands for
MemberLinks(obj) ==
    LET graph_link(link) == [output |-> OutputOf(link.input, link.output).id,
                             input |-> InputOf(link.input, link.output).id]
    IN  IF obj.cls = "Link" THEN {graph_link(obj)}
        ELSE IF obj.cls = "StereoLink" THEN {graph_link(obj.left), graph_link(obj.right)}
        ELSE IF obj.cls = "LinkGroup"
        THEN { graph_link(obj.links[k]) : k \in 1..Len(obj.links) }
        ELSE {}

\* C21: reconnect() of a Link, a StereoLink or a LinkGroup runs a connect
\* command for every member link, so that every member link is in the graph
\* afterwards.
C21_ReconnectRestores ==
    (call.op = "reconnect()" /\ raised = "none"
        /\ call.self.cls \in {"Link", "StereoLink", "LinkGroup"}) =>
        /\ Len(executed) = Cardinality(MemberLinks(call.self))
        /\ \A k \in 1..Len(executed) :
               executed[k][Len(executed[k])] # DISCONNECT_FLAG
        /\ MemberLinks(call.self) \subseteq graph.links

(***************************************************************************)
(* Properties of Controller.set_config, under ControllerSpec               *)
(***************************************************************************)
\* C22: set_config stores str(quality) under "--quality" for every integer
\* quality of 0..15 and raises ValueError exactly for the other integers.
C22_QualityRange ==
    (call.op = "set_config" /\ call.quality # None) =>
        IF 0 <= call.quality.val /\ call.quality.val <= 15
        THEN raised = "none" /\ _pipewire_configs["--quality"] = py_str(call.quality)
        ELSE raised = "ValueError"

\* C26: the stored "--rate" is its default or the string of a member of
\* RECOMMENDED_RATES, the stored "--format" its default or a member of
\* RECOMMENDED_FORMATS, the stored "--channels" its default, "1" or "2".
C26_OnlyVerifiedStored ==
    /\ _pipewire_configs["--rate"] \in
           {default_pipewire_configs["--rate"]}
               \cup { py_str(PyInt(rate)) : rate \in RECOMMENDED_RATES }
    /\ _pipewire_configs["--format"] \in
           {default_pipewire_configs["--format"]} \cup RECOMMENDED_FORMATS
    /\ _pipewire_configs["--channels"] \in
           {default_pipewire_configs["--channels"], <<"1">>, <<"2">>}


(***************************************************************************)
(* Properties of list_links and list_link_groups on any listing, under     *)
(* LinksSpec                                                               *)
(***************************************************************************)
\* C23: list_links and list_link_groups never raise, whatever lines the
\* listing is made of: a malformed listing is parsed by skipping lines.
C23_LinkParsersNeverRaise ==
    call.op \in {"list_links", "list_link_groups"} => raised = "none"

AnchorLines == { i \in 1..Len(listing) : listing[i].shape = "port" }

\* the k-th anchor line of the listing
AnchorAt(k) ==
    CHOOSE i \in AnchorLines :
        Cardinality({ j \in AnchorLines : j <= i }) = k

\* the relation lines of the anchor at line a
RelationsOf(a) == { r \in RelationLines : AnchorOf(r) = a }

C28_LinksAndGroupsAgree ==
    /\ call.op = "list_links" =>
           LET groups == list_link_groups(stdout) IN
           /\ (raised = "none") = (groups.exc = "none")
           /\ raised = "none" => result = AllLinks(groups.val)
    /\ call.op = "list_link_groups" =>
           LET links == list_links(stdout) IN
           /\ (raised = "none") = (links.exc = "none")
           /\ raised = "none" =>
                  /\ AllLinks(result) = links.val
                  /\ \A k \in 1..Len(result) : result[k].links # <<>>

\* one group was returned whose three links are those of list_links
C28_Witness ==
    /\ call.op = "list_link_groups"
    /\ raised = "none"
    /\ Len(result) = 1
    /\ Len(AllLinks(result)) = 3
    /\ AllLinks(result) = list_links(stdout).val

\* both parsers failed on the same listing
C28_FailTogether ==
    /\ call.op = "list_links"
    /\ raised # "none"
    /\ list_link_groups(stdout).exc = raised


(***************************************************************************)
(* Properties of Port.connect and Port.disconnect on a graph, under        *)
(* GraphSpec                                                               *)
(***************************************************************************)
\* C25: a connect or disconnect call on an output and an input runs pw-link
\* exactly once, whether pw-link succeeds or not, and a call that raises runs
\* nothing and leaves the links of the graph as they were.
C25_OneInvocationPerCall ==
    [][ call'.op \in LinkCalls =>
          IF call'.self.port_type # call'.other.port_type
          THEN /\ raised' = "none"
               /\ Len(executed') = 1
          ELSE /\ raised' # "none"
               /\ executed' = <<>>
               /\ graph'.links = graph.links ]_vars

\* pw-link refused the command, which was run once all the same
C25_Witness ==
    /\ call.op \in LinkCalls
    /\ call.self.port_type # call.other.port_type
    /\ graph.stderr # ""
    /\ Len(executed) = 1

\* a call on two ports of the same direction raised and ran nothing
C25_RaisedWithoutInvocation ==
    /\ call.op \in LinkCalls
    /\ call.self.port_type = call.other.port_type
    /\ raised # "none"
    /\ executed = <<>>
    /\ graph.links # {}


(***************************************************************************)
(* The pairing scan as a partition of the listed ports, under Spec         *)
(***************************************************************************)
\* C27: the paired listing covers the listed ports once each and in order:
\* the k-th entry is the port at the cursor, or a stereo group of the port at
\* the cursor and the next one, both present, of one device and one direction;
\* the entries together use up every listed port.
C27_PairingIsOrderedPartition ==
    Paired =>
        LET ports == ListedPorts(call.op) IN
        /\ \A k \in 1..Len(result) :
               LET c == Cursor(k)
                   entry == result[k]
               IN  /\ c <= Len(ports)
                   /\ IF IsGroup(entry)
                      THEN /\ c + 1 <= Len(ports)
                           /\ entry.cls = GroupClassOf(call.op)
                           /\ entry.left.cls # "None"
                           /\ entry.right.cls # "None"
                           /\ \/ entry.left = ports[c] /\ entry.right = ports[c + 1]
                              \/ entry.left = ports[c + 1] /\ entry.right = ports[c]
                           /\ entry.left.device = entry.right.device
                           /\ entry.left.port_type = DirectionOf(call.op)
                           /\ entry.right.port_type = DirectionOf(call.op)
                      ELSE entry = ports[c]
        /\ Cursor(Len(result) + 1) = Len(ports) + 1

\* a standalone port of one device, then the group of the two ports after it
C27_Witness ==
    /\ Paired
    /\ Len(PortLines) = 3
    /\ Len(result) = 2
    /\ ~IsGroup(result[1])
    /\ IsGroup(result[2])
    /\ result[1].device # result[2].left.device
    /\ result[2].left.id = PortLines[2].num
    /\ result[2].right.id = PortLines[3].num


(***************************************************************************)
(* list_inputs against a changing listing, under RaceSpec                  *)
(***************************************************************************)
\* an entry of list_outputs with the direction of list_inputs
AsInput(entry) ==
    IF entry.cls = "Output"
    THEN [entry EXCEPT !.cls = "Input", !.port_type = INPUT]
    ELSE entry

AsInputs(entries) ==
    [k \in 1..Len(entries) |->
        IF entries[k].cls = "StereoOutput"
        THEN Stereo("StereoInput", AsInput(entries[k].left), AsInput(entries[k].right))
        ELSE AsInput(entries[k])]

\* what one listing text gives when parsed and paired on its own
ParseOf(out, pair_stereo) ==
    LET outcome == list_outputs(out, pair_stereo)
    IN  [exc |-> outcome.exc, val |-> AsInputs(outcome.val)]

\* C30: what list_inputs returns (or raises) is what one of the listing texts
\* printed during the call gives on its own, also when the second text differs
\* from the first; when the two texts are the same it is what list_outputs
\* computes from that text, the direction apart.
C30_ParseOfOneListing ==
    (call.op = "list_inputs") =>
        LET outcome == [exc |-> raised, val |-> result] IN
        /\ outcome \in {ParseOf(call.first_out, call.pair_stereo),
                        ParseOf(stdout, call.pair_stereo)}
        /\ call.first_out = stdout => outcome = ParseOf(stdout, call.pair_stereo)

\* one port was printed first and a stereo pair the second time: the pair is
\* what was returned
C30_Witness ==
    /\ call.op = "list_inputs"
    /\ call.pair_stereo
    /\ Len(_split_id_from_data(call.first_out)) = 1
    /\ Len(listing) = 2
    /\ raised = "none"
    /\ Len(result) = 1
    /\ IsGroup(result[1])
    /\ result[1].left.port_type = INPUT

\* ports were printed first and none the second time: nothing was returned
C30_PortsGone ==
    /\ call.op = "list_inputs"
    /\ Len(_split_id_from_data(call.first_out)) = 2
    /\ listing = <<>>
    /\ raised = "none"
    /\ result = <<>>


(***************************************************************************)
(* Stereo calls that raise, under StereoSpec                               *)
(***************************************************************************)
StereoCalls == StereoConnectCalls \cup StereoDisconnectCalls

ChannelsAlike(self, other) ==
    (self.left.port_type = other.left.port_type)
        = (self.right.port_type = other.right.port_type)

\* the same, for the calls whose two channels are alike
C29_AlikeChannelsAllOrNothing ==
    [][ (/\ call'.op \in StereoCalls
         /\ raised' # "none"
         /\ ChannelsAlike(call'.self, call'.other)) =>
            /\ executed' = <<>>
            /\ graph'.links = graph.links ]_vars

\* the left channel was linked and then the right channel raised
C29_LeftRanThenRightRaised ==
    /\ call.op = "StereoInput.connect"
    /\ raised # "none"
    /\ Len(executed) = 1
    /\ [output |-> call.other.left.id, input |-> call.self.left.id] \in graph.links

====
